---- MODULE Spec2Model ----
(***************************************************************************)
(* Shooting-range target objects (src/src/index.ts): the pool of static    *)
(* and moving targets kept by module TargetObject, and MovingTimer, the    *)
(* system that moves the moving targets along their waypoints.             *)
(*                                                                         *)
(* Numbers.  The program computes with IEEE doubles; the model computes    *)
(* with fixed point.  A length or coordinate is an integer count of        *)
(* 1/PosScale, a component of `normal` an integer count of 1/NormScale,    *)
(* dt an integer count of 1/DtScale seconds and speed a whole number, so   *)
(* that PosScale = NormScale * DtScale makes                               *)
(*      pos += dt * speed * normal                                         *)
(* exact.  The only rounding is in the normalisation (Math.sqrt and the    *)
(* division), where doubles round too.  NaN is a value of its own: every   *)
(* arithmetic operation propagates it and every comparison with it is      *)
(* false.                                                                  *)
(***************************************************************************)
EXTENDS Integers, Sequences, FiniteSets, TLC

VARIABLES pooledObjects, entityCounter, Transform, TargetStaticComponent,
          TargetMovingComponent, call, removed

vars == <<pooledObjects, entityCounter, Transform, TargetStaticComponent,
          TargetMovingComponent, call, removed>>

----------------------------------------------------------------------------
(* Fixed-point numbers *)

DtScale == 2
NormScale == 100
PosScale == NormScale * DtScale

\* the result of 0/0 (index.ts:142-144 with length = 0)
NaN == -999999

IsNaN(a) == a = NaN

\* the arithmetic of numbers, as functions so that an operand is a value
Add[a \in Int, b \in Int] == IF IsNaN(a) \/ IsNaN(b) THEN NaN ELSE a + b
Sub[a \in Int, b \in Int] == IF IsNaN(a) \/ IsNaN(b) THEN NaN ELSE a - b
Mul[a \in Int, b \in Int] == IF IsNaN(a) \/ IsNaN(b) THEN NaN ELSE a * b
Abs[a \in Int] == IF IsNaN(a) THEN NaN ELSE IF a < 0 THEN 0 - a ELSE a
Lt[a \in Int, b \in Int] == ~IsNaN(a) /\ ~IsNaN(b) /\ a < b

\* integer quotient rounded toward zero, b > 0
Quot[a \in Int, b \in Int] ==
    IF a >= 0 THEN a \div b ELSE 0 - ((0 - a) \div b)

\* largest k in lo..hi with k*k <= n
SqrtSearch[n \in Nat, lo \in Nat, hi \in Nat] ==
    IF lo >= hi THEN lo
    ELSE LET mid == (lo + hi + 1) \div 2
         IN  IF mid * mid <= n THEN SqrtSearch[n, mid, hi]
                               ELSE SqrtSearch[n, lo, mid - 1]

\* Math.sqrt of a sum of squares of lengths, kept to 1/LenScale of a length unit
LenScale == 10
SqrtMax == 40000
Sqrt[n \in Int] ==
    IF IsNaN(n) THEN NaN ELSE SqrtSearch[n * LenScale * LenScale, 0, SqrtMax]

\* direction.x / length of index.ts:142-144, as a count of 1/NormScale;
\* length is a count of 1/LenScale of a length unit
Div[d \in Int, length \in Int] ==
    IF IsNaN(d) \/ IsNaN(length) THEN NaN
    ELSE IF length = 0 THEN NaN
    ELSE Quot[d * NormScale * LenScale, length]

Vec(a, b, c) == [x |-> a, y |-> b, z |-> c]
VecZero == Vec(0, 0, 0)
VecOne  == Vec(1, 1, 1)
VecNaN(v) == IsNaN(v.x) \/ IsNaN(v.y) \/ IsNaN(v.z)

----------------------------------------------------------------------------
(* The module's types and the engine's component stores *)

STATIC == 0
MOVING == 1
TARGET_TYPE == {STATIC, MOVING}

\* every handle engine.addEntity has returned so far
Handles == 0 .. (entityCounter - 1)

\* entities the engine still holds (engine.removeEntity drops an entity's components)
Alive == DOMAIN Transform

HasStatic(e) == e \in DOMAIN TargetStaticComponent
HasMoving(e) == e \in DOMAIN TargetMovingComponent

\* f without the entry of e
Drop(f, e) == [k \in (DOMAIN f) \ {e} |-> f[k]]
\* f with the entry of e set to v
Put(f, e, v) == [k \in (DOMAIN f) \cup {e} |-> IF k = e THEN v ELSE f[k]]

Undefined == -1

\* the last call, as its caller saw it: the operation, the entity it was given
\* (Enable, Disable, Destroy, the setters) or returned (Create), Undefined
\* where there is none, the dt of a tick, whether Create returned a recycled
\* entity (index.ts:173-174), whether the entity Enable or Disable was given
\* was active when it was called, and whether the call threw
Call(op, entity, threw) ==
    [op |-> op, entity |-> entity, dt |-> Undefined, reused |-> FALSE,
     active |-> FALSE, threw |-> threw]

\* a component store no entity has a record in
EmptyStore == [k \in {} |-> 0]

Init ==
    /\ pooledObjects = [t \in TARGET_TYPE |-> <<>>]
    /\ entityCounter = 0
    /\ Transform = EmptyStore
    /\ TargetStaticComponent = EmptyStore
    /\ TargetMovingComponent = EmptyStore
    /\ call = Call("init", Undefined, FALSE)
    /\ removed = <<>>

----------------------------------------------------------------------------
(* TargetObject: Create, Enable, Disable, DisableAll, Destroy, DestroyAll *)

TargetData(type, pos) == [type |-> type, pos |-> pos]

\* the component store of a target type
Component(type) ==
    IF type = STATIC THEN TargetStaticComponent ELSE TargetMovingComponent

\* the entity has the component of the type and its isActive is set
IsActive(entity, type) ==
    entity \in DOMAIN Component(type) /\ Component(type)[entity].isActive

\* a call that throws before it has changed anything
Throws(op, entity) ==
    /\ call' = Call(op, entity, TRUE)
    /\ removed' = <<>>
    /\ UNCHANGED <<pooledObjects, entityCounter, Transform,
                   TargetStaticComponent, TargetMovingComponent>>

\* a scan that takes the first entry of the bucket whatever its state
ScanStopFirst(type) == IF pooledObjects[type] = <<>> THEN 0 ELSE 1

\* a scan that finds nothing to reuse
ScanStopNone(type) == 0

\* Create's scan stops at the first entry of the bucket whose component is
\* missing (get throws) or is not active (Enable, return); 0 if it runs through
ScanStop(type) ==
    LET pool  == pooledObjects[type]
        stops == {i \in 1 .. Len(pool) :
                     \/ pool[i] \notin DOMAIN Component(type)
                     \/ ~Component(type)[pool[i]].isActive}
    IN  IF stops = {} THEN 0
        ELSE CHOOSE i \in stops : \A j \in stops : i <= j

\* Enable's writes to the entity's component: isActive = true
EnableStatic(entity) ==
    [TargetStaticComponent EXCEPT ![entity].isActive = TRUE]
\* an Enable that also stops the movement of the target it enables
EnableMovingIdle(entity) ==
    [TargetMovingComponent EXCEPT ![entity].isActive = TRUE,
                                  ![entity].isProcessing = FALSE]

EnableMoving(entity) ==
    [TargetMovingComponent EXCEPT ![entity].isActive = TRUE]

\* Enable's writes to the entity's transform: position, and scale = 1
EnableTransform(entity, targetData) ==
    [Transform EXCEPT ![entity].position = targetData.pos,
                      ![entity].scale = VecOne]

\* the state Enable(entity, targetData) leaves, for an entity that has the
\* component of targetData.type
Enabled(entity, targetData) ==
    /\ TargetStaticComponent' =
          IF targetData.type = STATIC THEN EnableStatic(entity)
          ELSE TargetStaticComponent
    /\ TargetMovingComponent' =
          IF targetData.type = MOVING THEN EnableMoving(entity)
          ELSE TargetMovingComponent
    /\ Transform' = EnableTransform(entity, targetData)
    /\ UNCHANGED <<pooledObjects, entityCounter>>

\* the records Create attaches to a new entity; the fields it does not give
\* take the schema's defaults (0, the empty array, the zero vector)
NewTransform(targetData) == [position |-> targetData.pos, scale |-> VecOne]
NewStatic == [isActive |-> TRUE]
NewMoving == [isActive |-> TRUE, isProcessing |-> FALSE, speed |-> 0,
              indexCur |-> 0, waypoints |-> <<>>, normal |-> VecZero]

\* the part of Create that makes a new entity and pools it
Allocated(targetData) ==
    LET entity == entityCounter
    IN  /\ entityCounter' = entityCounter + 1
        /\ Transform' = Put(Transform, entity, NewTransform(targetData))
        /\ TargetStaticComponent' =
              IF targetData.type = STATIC
              THEN Put(TargetStaticComponent, entity, NewStatic)
              ELSE TargetStaticComponent
        /\ TargetMovingComponent' =
              IF targetData.type = MOVING
              THEN Put(TargetMovingComponent, entity, NewMoving)
              ELSE TargetMovingComponent
        /\ pooledObjects' =
              [pooledObjects EXCEPT ![targetData.type] = Append(@, entity)]
        /\ call' = Call("Create", entity, FALSE)
        /\ removed' = <<>>

Create(targetData) ==
    LET type == targetData.type
        i    == ScanStop(type)
    IN  IF i = 0 THEN Allocated(targetData)
        ELSE IF pooledObjects[type][i] \notin DOMAIN Component(type)
        THEN Throws("Create", Undefined)
        ELSE /\ Enabled(pooledObjects[type][i], targetData)
             /\ call' = [Call("Create", pooledObjects[type][i], FALSE)
                         EXCEPT !.reused = TRUE]
             /\ removed' = <<>>

Enable(entity, targetData) ==
    IF entity \notin DOMAIN Component(targetData.type)
    THEN Throws("Enable", entity)
    ELSE /\ Enabled(entity, targetData)
         /\ call' = [Call("Enable", entity, FALSE)
                     EXCEPT !.active = IsActive(entity, targetData.type)]
         /\ removed' = <<>>

\* the component stores, as the value a loop of calls threads through; threw
\* is set by the call that throws, which ends the loop
World == [static |-> TargetStaticComponent, moving |-> TargetMovingComponent,
          transform |-> Transform, threw |-> FALSE]

\* a Disable that leaves isProcessing as it is
DisableKeepsProcessing(w, entity, type) ==
    IF w.threw THEN w
    ELSE IF type = STATIC
    THEN IF entity \notin DOMAIN w.static THEN [w EXCEPT !.threw = TRUE]
         ELSE [w EXCEPT !.static[entity].isActive = FALSE,
                        !.transform[entity].scale = VecZero]
    ELSE IF entity \notin DOMAIN w.moving THEN [w EXCEPT !.threw = TRUE]
         ELSE [w EXCEPT !.moving[entity].isActive = FALSE,
                        !.transform[entity].scale = VecZero]

\* a Disable that takes the entity it is given to be active, and throws for
\* one that is not
DisableActiveOnly(w, entity, type) ==
    IF w.threw THEN w
    ELSE IF type = STATIC
    THEN IF entity \notin DOMAIN w.static \/ ~w.static[entity].isActive
         THEN [w EXCEPT !.threw = TRUE]
         ELSE [w EXCEPT !.static[entity].isActive = FALSE,
                        !.transform[entity].scale = VecZero]
    ELSE IF entity \notin DOMAIN w.moving \/ ~w.moving[entity].isActive
         THEN [w EXCEPT !.threw = TRUE]
         ELSE [w EXCEPT !.moving[entity].isActive = FALSE,
                        !.moving[entity].isProcessing = FALSE,
                        !.transform[entity].scale = VecZero]

\* Disable(entity, type) on the stores w: getMutable throws for an entity
\* without the component of that type
DisableIn(w, entity, type) ==
    IF w.threw THEN w
    ELSE IF type = STATIC
    THEN IF entity \notin DOMAIN w.static THEN [w EXCEPT !.threw = TRUE]
         ELSE [w EXCEPT !.static[entity].isActive = FALSE,
                        !.transform[entity].scale = VecZero]
    ELSE IF entity \notin DOMAIN w.moving THEN [w EXCEPT !.threw = TRUE]
         ELSE [w EXCEPT !.moving[entity].isActive = FALSE,
                        !.moving[entity].isProcessing = FALSE,
                        !.transform[entity].scale = VecZero]

Disable(entity, type) ==
    LET w == DisableIn(World, entity, type)
    IN  /\ TargetStaticComponent' = w.static
        /\ TargetMovingComponent' = w.moving
        /\ Transform' = w.transform
        /\ call' = [Call("Disable", entity, w.threw)
                    EXCEPT !.active = IsActive(entity, type)]
        /\ removed' = <<>>
        /\ UNCHANGED <<pooledObjects, entityCounter>>

\* the order in which DisableAll visits the pool: bucket 0, then bucket 1,
\* each from its first entry to its last
RECURSIVE DisableFrom(_, _, _)
DisableFrom(w, type, j) ==
    IF j > Len(pooledObjects[type]) THEN w
    ELSE DisableFrom(DisableIn(w, pooledObjects[type][j], type), type, j + 1)

\* a DisableAll whose outer loop stops after bucket 0
DisableAllStaticOnly(w) == DisableFrom(w, STATIC, 1)

DisableAllIn(w) == DisableFrom(DisableFrom(w, STATIC, 1), MOVING, 1)

DisableAll ==
    LET w == DisableAllIn(World)
    IN  /\ TargetStaticComponent' = w.static
        /\ TargetMovingComponent' = w.moving
        /\ Transform' = w.transform
        /\ call' = Call("DisableAll", Undefined, w.threw)
        /\ removed' = <<>>
        /\ UNCHANGED <<pooledObjects, entityCounter>>

\* engine.removeEntity: the entity's records leave every component store
RECURSIVE RemoveEntities(_, _)
RemoveEntities(f, es) ==
    IF es = <<>> THEN f ELSE RemoveEntities(Drop(f, Head(es)), Tail(es))

\* a Destroy that takes the handle out of its bucket
DestroyPoolEvict(entity) ==
    [t \in TARGET_TYPE |->
        SelectSeq(pooledObjects[t], LAMBDA h : h # entity)]

\* what Destroy does to the pool: nothing
DestroyPool(entity) == pooledObjects

Destroy(entity) ==
    /\ Transform' = RemoveEntities(Transform, <<entity>>)
    /\ TargetStaticComponent' = RemoveEntities(TargetStaticComponent, <<entity>>)
    /\ TargetMovingComponent' = RemoveEntities(TargetMovingComponent, <<entity>>)
    /\ removed' = <<entity>>
    /\ pooledObjects' = DestroyPool(entity)
    /\ call' = Call("Destroy", entity, FALSE)
    /\ UNCHANGED entityCounter

\* the entities of a bucket in the order shift() would hand them out
ShiftOrder(pool) == pool

\* the entities of a bucket in the order pop() hands them out
RECURSIVE PopOrder(_)
PopOrder(pool) ==
    IF pool = <<>> THEN <<>>
    ELSE <<pool[Len(pool)]>> \o PopOrder(SubSeq(pool, 1, Len(pool) - 1))

\* the entities DestroyAll destroys, in order: bucket 0, then bucket 1
DestroyOrder == PopOrder(pooledObjects[STATIC]) \o PopOrder(pooledObjects[MOVING])

DestroyAll ==
    /\ Transform' = RemoveEntities(Transform, DestroyOrder)
    /\ TargetStaticComponent' = RemoveEntities(TargetStaticComponent, DestroyOrder)
    /\ TargetMovingComponent' = RemoveEntities(TargetMovingComponent, DestroyOrder)
    /\ removed' = DestroyOrder
    /\ pooledObjects' = [t \in TARGET_TYPE |-> <<>>]
    /\ call' = Call("DestroyAll", Undefined, FALSE)
    /\ UNCHANGED entityCounter

----------------------------------------------------------------------------
(* The caller's writes to a moving target's component (main) *)

\* getMutable(entity).field = value; getMutable throws for an entity without
\* the moving component
SetSpeed(entity, speed) ==
    IF ~HasMoving(entity) THEN Throws("SetSpeed", entity)
    ELSE /\ TargetMovingComponent' =
               [TargetMovingComponent EXCEPT ![entity].speed = speed]
         /\ call' = Call("SetSpeed", entity, FALSE)
         /\ removed' = <<>>
         /\ UNCHANGED <<pooledObjects, entityCounter, Transform,
                        TargetStaticComponent>>

SetWaypoints(entity, waypoints) ==
    IF ~HasMoving(entity) THEN Throws("SetWaypoints", entity)
    ELSE /\ TargetMovingComponent' =
               [TargetMovingComponent EXCEPT ![entity].waypoints = waypoints]
         /\ call' = Call("SetWaypoints", entity, FALSE)
         /\ removed' = <<>>
         /\ UNCHANGED <<pooledObjects, entityCounter, Transform,
                        TargetStaticComponent>>

SetProcessing(entity, isProcessing) ==
    IF ~HasMoving(entity) THEN Throws("SetProcessing", entity)
    ELSE /\ TargetMovingComponent' =
               [TargetMovingComponent EXCEPT ![entity].isProcessing = isProcessing]
         /\ call' = Call("SetProcessing", entity, FALSE)
         /\ removed' = <<>>
         /\ UNCHANGED <<pooledObjects, entityCounter, Transform,
                        TargetStaticComponent>>

----------------------------------------------------------------------------
(* MovingTimer: the system the engine runs once per tick *)

\* the tolerances of the destination check, 0.05 and 0.02
EpsXY == (5 * PosScale) \div 100
EpsZ  == (2 * PosScale) \div 100

\* a destination check that every target passes on every tick
ArrivedAlways(pos, w) == TRUE

\* a destination check that lets a difference equal to a tolerance through
ArrivedNonStrict(pos, w) ==
    /\ ~Lt[EpsXY, Abs[Sub[pos.x, w.x]]] /\ ~IsNaN(pos.x)
    /\ ~Lt[EpsXY, Abs[Sub[pos.y, w.y]]] /\ ~IsNaN(pos.y)
    /\ ~Lt[EpsZ, Abs[Sub[pos.z, w.z]]] /\ ~IsNaN(pos.z)

\* the destination check of index.ts:125-129
Arrived(pos, w) ==
    /\ Lt[Abs[Sub[pos.x, w.x]], EpsXY]
    /\ Lt[Abs[Sub[pos.y, w.y]], EpsXY]
    /\ Lt[Abs[Sub[pos.z, w.z]], EpsZ]

\* indexCur++, back to 0 past the last waypoint
NextIndex(indexCur, waypoints) ==
    IF indexCur + 1 >= Len(waypoints) THEN 0 ELSE indexCur + 1

\* a normalisation that gives the zero vector for a target that is at w
NormalGuarded(pos, w) ==
    LET direction == Vec(Sub[w.x, pos.x], Sub[w.y, pos.y], Sub[w.z, pos.z])
        length == Sqrt[Add[Add[Mul[direction.x, direction.x],
                               Mul[direction.y, direction.y]],
                           Mul[direction.z, direction.z]]]
    IN  IF length = 0 THEN VecZero
        ELSE Vec(Div[direction.x, length], Div[direction.y, length],
                 Div[direction.z, length])

\* the unit vector from pos to the waypoint w
Normal(pos, w) ==
    LET direction == Vec(Sub[w.x, pos.x], Sub[w.y, pos.y], Sub[w.z, pos.z])
        length == Sqrt[Add[Add[Mul[direction.x, direction.x],
                               Mul[direction.y, direction.y]],
                           Mul[direction.z, direction.z]]]
    IN  Vec(Div[direction.x, length], Div[direction.y, length],
            Div[direction.z, length])

\* a move that leaves the speed out
MovedNoSpeed(pos, dt, speed, normal) ==
    Vec(Add[pos.x, Mul[dt, normal.x]],
        Add[pos.y, Mul[dt, normal.y]],
        Add[pos.z, Mul[dt, normal.z]])

\* pos += dt * speed * normal
Moved(pos, dt, speed, normal) ==
    Vec(Add[pos.x, Mul[Mul[dt, speed], normal.x]],
        Add[pos.y, Mul[Mul[dt, speed], normal.y]],
        Add[pos.z, Mul[Mul[dt, speed], normal.z]])

\* a check that lets through every active target, processing or not
SkippedIfInactive(component) == ~component.isActive

\* targets the system leaves alone
Skipped(component) == ~component.isActive \/ ~component.isProcessing

\* the loop body of MovingTimer for one entity with the moving component:
\* what it leaves as the entity's component and position, and whether it
\* throws; waypoints[indexCur] of an index past the array is undefined and
\* reading its x throws
TickIn(entity, dt) ==
    LET component == TargetMovingComponent[entity]
        pos == Transform[entity].position
        same == [component |-> component, position |-> pos, threw |-> FALSE]
    IN  IF Skipped(component) THEN same
        ELSE IF component.indexCur >= Len(component.waypoints)
        THEN [same EXCEPT !.threw = TRUE]
        ELSE LET arrived == Arrived(pos, component.waypoints[component.indexCur + 1])
                 indexCur == IF arrived
                             THEN NextIndex(component.indexCur, component.waypoints)
                             ELSE component.indexCur
                 normal == IF arrived
                           THEN Normal(pos, component.waypoints[indexCur + 1])
                           ELSE component.normal
             IN  [component |-> [component EXCEPT !.indexCur = indexCur,
                                                  !.normal = normal],
                  position |-> Moved(pos, dt, component.speed, normal),
                  threw |-> FALSE]

\* engine.getEntitiesWith(TargetMovingComponent) hands out the entities that
\* have the component in the order they were given it, which is the order
\* of their handles; the loop gets to an entity, and through its body, if
\* the body threw for no entity before it
Reached(entity, dt) ==
    \A e \in DOMAIN TargetMovingComponent : e <= entity => ~TickIn(e, dt).threw

MovingTimer(dt) ==
    /\ TargetMovingComponent' =
          [e \in DOMAIN TargetMovingComponent |->
              IF Reached(e, dt) THEN TickIn(e, dt).component
              ELSE TargetMovingComponent[e]]
    /\ Transform' =
          [e \in DOMAIN Transform |->
              IF e \in DOMAIN TargetMovingComponent /\ Reached(e, dt)
              THEN [Transform[e] EXCEPT !.position = TickIn(e, dt).position]
              ELSE Transform[e]]
    /\ call' = [Call("MovingTimer", Undefined,
                     \E e \in DOMAIN TargetMovingComponent : TickIn(e, dt).threw)
                EXCEPT !.dt = dt]
    /\ removed' = <<>>
    /\ UNCHANGED <<pooledObjects, entityCounter, TargetStaticComponent>>

----------------------------------------------------------------------------
(* Bounds and inputs *)

\* handles the engine gives out
MaxEntities == 3
\* moving targets in the pool
MaxMovers == 1
\* largest coordinate a target is followed to, in length units
MaxCoord == 2

PosA == Vec(0, 0, 0)
PosB == Vec(PosScale, 0, 0)
Positions == {PosA, PosB}
WaypointLists == {<<PosA>>, <<PosA, PosB>>}
Speeds == {1}
\* dt of a tick: no time, one second
Dts == {0, DtScale}
\* dt of the ticks of the liveness specification: half a second, one second
LiveDts == {DtScale \div 2, DtScale}
\* dt of the ticks of the pool specification, whose targets never move
PoolDts == {DtScale}

\* Create may need a new handle only while the engine has one to give
CanCreate(type, max) == ScanStop(type) = 0 => entityCounter < max
\* ... and a new moving target only while its bucket has room
CanPool(type, max) == (type = MOVING /\ ScanStop(type) = 0) => Len(pooledObjects[type]) < max

InRange(a) == IsNaN(a) \/ (0 - MaxCoord * PosScale <= a /\ a <= MaxCoord * PosScale)
AllInRange ==
    \A e \in DOMAIN Transform :
        /\ InRange(Transform[e].position.x)
        /\ InRange(Transform[e].position.y)
        /\ InRange(Transform[e].position.z)

\* the handles in a bucket
Pooled(type) == {pooledObjects[type][i] : i \in 1 .. Len(pooledObjects[type])}

\* the pool manager under every call of its interface on the handles it has
\* pooled, each with the type it was created with; the moving targets are left
\* with the waypoints and speed Create gives them
Next ==
    \/ \E type \in TARGET_TYPE, pos \in Positions :
          /\ CanCreate(type, MaxEntities)
          /\ CanPool(type, MaxMovers)
          /\ Create(TargetData(type, pos))
    \/ \E type \in TARGET_TYPE, pos \in Positions :
          \E entity \in Pooled(type) : Enable(entity, TargetData(type, pos))
    \/ \E type \in TARGET_TYPE : \E entity \in Pooled(type) : Disable(entity, type)
    \/ DisableAll
    \/ \E type \in TARGET_TYPE : \E entity \in Pooled(type) : Destroy(entity)
    \/ DestroyAll
    \/ \E entity \in Pooled(MOVING), isProcessing \in BOOLEAN :
          SetProcessing(entity, isProcessing)
    \/ \E dt \in PoolDts : MovingTimer(dt)

Spec == Init /\ [][Next]_vars

\* the same calls on a pool of at most max entities
Pool(max) ==
    \/ \E type \in TARGET_TYPE, pos \in Positions :
          /\ CanCreate(type, max)
          /\ CanPool(type, MaxMovers)
          /\ Create(TargetData(type, pos))
    \/ \E type \in TARGET_TYPE, pos \in Positions :
          \E entity \in Pooled(type) : Enable(entity, TargetData(type, pos))
    \/ \E type \in TARGET_TYPE : \E entity \in Pooled(type) : Disable(entity, type)
    \/ DisableAll
    \/ \E type \in TARGET_TYPE : \E entity \in Pooled(type) : Destroy(entity)
    \/ DestroyAll
    \/ \E entity \in Pooled(MOVING), isProcessing \in BOOLEAN :
          SetProcessing(entity, isProcessing)
    \/ \E dt \in PoolDts : MovingTimer(dt)

\* a pool of a moving target and one more target
NextPair == Pool(MaxMovers + 1)

SpecPair == Init /\ [][NextPair]_vars

\* moving targets set up and run the way main does, disabled and reused
NextMotion ==
    \/ \E pos \in Positions :
          CanCreate(MOVING, MaxMovers) /\ Create(TargetData(MOVING, pos))
    \/ \E entity \in Pooled(MOVING) : Disable(entity, MOVING)
    \/ \E entity \in Pooled(MOVING), speed \in Speeds : SetSpeed(entity, speed)
    \/ \E entity \in Pooled(MOVING), waypoints \in WaypointLists :
          SetWaypoints(entity, waypoints)
    \/ \E entity \in Pooled(MOVING), isProcessing \in BOOLEAN :
          SetProcessing(entity, isProcessing)
    \/ \E dt \in Dts : MovingTimer(dt) /\ AllInRange'

SpecMotion == Init /\ [][NextMotion]_vars

\* the same with every tick taking time
NextLive ==
    \/ \E pos \in Positions :
          CanCreate(MOVING, MaxMovers) /\ Create(TargetData(MOVING, pos))
    \/ \E entity \in Pooled(MOVING) : Disable(entity, MOVING)
    \/ \E entity \in Pooled(MOVING), speed \in Speeds : SetSpeed(entity, speed)
    \/ \E entity \in Pooled(MOVING), waypoints \in WaypointLists :
          SetWaypoints(entity, waypoints)
    \/ \E entity \in Pooled(MOVING), isProcessing \in BOOLEAN :
          SetProcessing(entity, isProcessing)
    \/ \E dt \in LiveDts : MovingTimer(dt) /\ AllInRange'

\* the engine runs its systems on every frame: ticks with dt > 0 keep coming
PositiveTick == \E dt \in LiveDts : MovingTimer(dt) /\ AllInRange'

SpecLive == Init /\ [][NextLive]_vars /\ WF_vars(PositiveTick)

\* moving targets created at the given positions, set up with the given
\* waypoint lists and speeds, disabled and reused, and run by ticks of the
\* given dts
Motion(positions, lists, speeds, dts) ==
    \/ \E pos \in positions :
          CanCreate(MOVING, MaxMovers) /\ Create(TargetData(MOVING, pos))
    \/ \E entity \in Pooled(MOVING) : Disable(entity, MOVING)
    \/ \E entity \in Pooled(MOVING), speed \in speeds : SetSpeed(entity, speed)
    \/ \E entity \in Pooled(MOVING), waypoints \in lists :
          SetWaypoints(entity, waypoints)
    \/ \E entity \in Pooled(MOVING), isProcessing \in BOOLEAN :
          SetProcessing(entity, isProcessing)
    \/ \E dt \in dts : MovingTimer(dt) /\ AllInRange'

\* positions around the waypoint PosA: 0.04 and 0.01 off in y and z, 0.06 off
\* in y, and off by exactly a tolerance in y and in z
NearA == Vec(0, (4 * PosScale) \div 100, (1 * PosScale) \div 100)
FarY  == Vec(0, (6 * PosScale) \div 100, 0)
EdgeY == Vec(0, EpsXY, 0)
EdgeZ == Vec(0, 0, EpsZ)
NearPositions == {PosA, NearA, FarY, EdgeY, EdgeZ}

\* moving targets created around their first waypoint; the ticks take no
\* time, so that a target is seen by the destination check where it was put
NextArrival == Motion(NearPositions, {<<PosA, PosB>>}, Speeds, {0})

SpecArrival == Init /\ [][NextArrival]_vars

\* moving targets sent back and forth between PosA and PosB at speeds 1 and
\* 2 by ticks of half a second
ScaleSpeeds == {1, 2}
ScaleDts == {DtScale \div 2}
NextScale == Motion(Positions, {<<PosA, PosB>>}, ScaleSpeeds, ScaleDts)

SpecScale == Init /\ [][NextScale]_vars

\* moving targets sent back and forth between PosA and PosB, disabled,
\* reused, and enabled by their callers wherever they are
NextEnable ==
    \/ Motion(Positions, {<<PosA, PosB>>}, Speeds, PoolDts)
    \/ \E entity \in Pooled(MOVING), pos \in Positions :
          Enable(entity, TargetData(MOVING, pos))

SpecEnable == Init /\ [][NextEnable]_vars

\* a scene like the one main sets up: static targets next to moving targets
\* that are sent back and forth between PosA and PosB
NextScene ==
    \/ \E pos \in Positions :
          CanCreate(STATIC, MaxMovers + 1) /\ Create(TargetData(STATIC, pos))
    \/ Motion({PosA}, {<<PosA, PosB>>}, Speeds, ScaleDts)

SpecScene == Init /\ [][NextScene]_vars

\* the pool without Destroy and DestroyAll, under callers that start the
\* movement of active targets only, as main does with the target Create
\* has just returned
NextCareful ==
    \/ \E type \in TARGET_TYPE, pos \in Positions :
          /\ CanCreate(type, MaxEntities)
          /\ CanPool(type, MaxMovers)
          /\ Create(TargetData(type, pos))
    \/ \E type \in TARGET_TYPE, pos \in Positions :
          \E entity \in Pooled(type) : Enable(entity, TargetData(type, pos))
    \/ \E type \in TARGET_TYPE : \E entity \in Pooled(type) : Disable(entity, type)
    \/ DisableAll
    \/ \E entity \in Pooled(MOVING), isProcessing \in BOOLEAN :
          /\ isProcessing => IsActive(entity, MOVING)
          /\ SetProcessing(entity, isProcessing)
    \/ \E dt \in PoolDts : MovingTimer(dt)

SpecCareful == Init /\ [][NextCareful]_vars

----------------------------------------------------------------------------
(* Properties of the pool manager *)

Other(type) == IF type = STATIC THEN MOVING ELSE STATIC

\* the bucket holds an entity whose record says it is not active
HasInactive(type) ==
    \E e \in Pooled(type) :
        e \in DOMAIN Component(type) /\ ~Component(type)[e].isActive

\* every handle of the bucket is an entity whose record says it is active
AllActive(type) ==
    \A e \in Pooled(type) :
        e \in DOMAIN Component(type) /\ Component(type)[e].isActive

\* C1 (pool reuse): a Create called while the bucket of its type holds an
\* inactive entity returns a handle of that bucket, leaves both buckets as
\* they were, and the entity it returns is active, at the position asked
\* for, with scale (1,1,1).
C1_PoolReuse ==
    [][\A type \in TARGET_TYPE, pos \in Positions :
          (HasInactive(type) /\ Create(TargetData(type, pos))) =>
              /\ ~call'.threw
              /\ call'.entity \in Pooled(type)
              /\ pooledObjects' = pooledObjects
              /\ call'.entity \in DOMAIN Component(type)'
              /\ Component(type)'[call'.entity].isActive
              /\ Transform'[call'.entity].position = pos
              /\ Transform'[call'.entity].scale = VecOne]_vars

\* C2 (no premature reuse): a Create called while every handle of the bucket
\* of its type is an active entity (or the bucket is empty) returns a handle
\* that was in neither bucket, appends it to the bucket of its type, leaves
\* the other bucket alone, and the new entity has a fresh record: Static
\* isActive; Moving isActive, not isProcessing, indexCur 0.
C2_NoPrematureReuse ==
    [][\A type \in TARGET_TYPE, pos \in Positions :
          (AllActive(type) /\ Create(TargetData(type, pos))) =>
              /\ ~call'.threw
              /\ call'.entity \notin Pooled(STATIC) \cup Pooled(MOVING)
              /\ pooledObjects'[type] = Append(pooledObjects[type], call'.entity)
              /\ pooledObjects'[Other(type)] = pooledObjects[Other(type)]
              /\ call'.entity \in DOMAIN Component(type)'
              /\ call'.entity \notin DOMAIN Component(Other(type))'
              /\ Component(type)'[call'.entity].isActive
              /\ type = MOVING =>
                    /\ ~TargetMovingComponent'[call'.entity].isProcessing
                    /\ TargetMovingComponent'[call'.entity].indexCur = 0]_vars

\* a second entity of a type was allocated while the first was still active
C2_Witness ==
    /\ call.op = "Create" /\ ~call.reused /\ ~call.threw
    /\ \E type \in TARGET_TYPE :
          /\ Len(pooledObjects[type]) >= 2
          /\ pooledObjects[type][Len(pooledObjects[type])] = call.entity
          /\ AllActive(type)

\* C3 (pool invariant): every handle in a bucket is an entity with exactly
\* one state record, of the bucket's type, and no handle is in both buckets.
C3_PoolInvariant ==
    /\ \A type \in TARGET_TYPE : \A e \in Pooled(type) :
          e \in DOMAIN Component(type) /\ e \notin DOMAIN Component(Other(type))
    /\ Pooled(STATIC) \cap Pooled(MOVING) = {}

C5_DestroyEvicts ==
    call.op = "Destroy" => call.entity \notin Pooled(STATIC) \cup Pooled(MOVING)

\* the record of a pooled entity says it is disabled, and its scale is zero
IsDisabled(type, e) ==
    /\ e \in DOMAIN Component(type)
    /\ ~Component(type)[e].isActive
    /\ type = MOVING => ~TargetMovingComponent[e].isProcessing
    /\ Transform[e].scale = VecZero

\* the pool in the order DisableAll visits it: bucket 0, then bucket 1
VisitOrder == pooledObjects[STATIC] \o pooledObjects[MOVING]
VisitType(k) == IF k <= Len(pooledObjects[STATIC]) THEN STATIC ELSE MOVING

\* C6 (DisableAll coverage): when DisableAll returns, every entity in both
\* buckets is disabled (isActive false, for Moving isProcessing false too,
\* scale zero) and the buckets are as they were.  The order of the visit,
\* bucket 0 then bucket 1, each in insertion order, shows when a call
\* throws at a handle that has no record: the entities before it in that
\* order are disabled and the ones after it are as they were.
C6_DisableAllCoverage ==
    [][call'.op = "DisableAll" =>
          /\ pooledObjects' = pooledObjects
          /\ ~call'.threw =>
                \A type \in TARGET_TYPE : \A e \in Pooled(type) :
                    IsDisabled(type, e)'
          /\ call'.threw =>
                \E k \in 1 .. Len(VisitOrder) :
                    /\ VisitOrder[k] \notin DOMAIN Component(VisitType(k))
                    /\ \A i \in 1 .. (k - 1) :
                          IsDisabled(VisitType(i), VisitOrder[i])'
                    /\ \A i \in (k + 1) .. Len(VisitOrder) :
                          VisitOrder[i] \in Alive =>
                              /\ Transform'[VisitOrder[i]] = Transform[VisitOrder[i]]
                              /\ Component(VisitType(i))'[VisitOrder[i]] =
                                    Component(VisitType(i))[VisitOrder[i]]]_vars

\* DisableAll has returned with three entities pooled, of both types
C6_Witness ==
    /\ call.op = "DisableAll" /\ ~call.threw
    /\ Len(pooledObjects[STATIC]) >= 2
    /\ Len(pooledObjects[MOVING]) >= 1
    /\ \A type \in TARGET_TYPE : \A e \in Pooled(type) : IsDisabled(type, e)

\* the place of a handle in a sequence of removeEntity calls, and how often
\* it is in it
At(calls, e) == CHOOSE k \in 1 .. Len(calls) : calls[k] = e
Count(calls, e) == Cardinality({k \in 1 .. Len(calls) : calls[k] = e})

\* C7: DestroyAll ends with both buckets empty and every pooled handle
\* handed to engine.removeEntity exactly once and gone from the engine;
\* within a bucket the later entry is destroyed first, and every Static
\* entry before any Moving one.
C7_DestroyAll ==
    [][call'.op = "DestroyAll" =>
          /\ ~call'.threw
          /\ \A type \in TARGET_TYPE : pooledObjects'[type] = <<>>
          /\ Len(removed') = Len(pooledObjects[STATIC]) + Len(pooledObjects[MOVING])
          /\ \A type \in TARGET_TYPE : \A e \in Pooled(type) :
                /\ e \notin Alive'
                /\ Count(removed', e) = 1
          /\ \A type \in TARGET_TYPE :
                \A i, j \in 1 .. Len(pooledObjects[type]) :
                    i < j => At(removed', pooledObjects[type][j])
                               < At(removed', pooledObjects[type][i])
          /\ \A s \in Pooled(STATIC), m \in Pooled(MOVING) :
                At(removed', s) < At(removed', m)]_vars

\* DestroyAll has destroyed a bucket of two Static entities, then a Moving one
C7_Witness ==
    /\ call.op = "DestroyAll"
    /\ removed = <<1, 0, 2>>
    /\ Alive = {}
    /\ pooledObjects[STATIC] = <<>> /\ pooledObjects[MOVING] = <<>>

----------------------------------------------------------------------------
(* Properties of the movement *)

Movers == DOMAIN TargetMovingComponent

Idle(e) ==
    ~TargetMovingComponent[e].isActive \/ ~TargetMovingComponent[e].isProcessing

\* C8 (idle motion): a tick, whatever its dt, leaves the position, indexCur
\* and normal of every Moving entity that is not active or not processing
\* as they were, and leaves it idle, so that any number of ticks do.
C8_IdleMotion ==
    [][call'.op = "MovingTimer" =>
          \A e \in Movers : Idle(e) =>
              /\ Transform'[e] = Transform[e]
              /\ TargetMovingComponent'[e] = TargetMovingComponent[e]]_vars

\* a tick that takes time has passed over an active target that was set up
\* and had been moving, and is not processing
C8_Witness ==
    /\ call.op = "MovingTimer" /\ call.dt > 0 /\ ~call.threw
    /\ \E e \in Movers :
          /\ TargetMovingComponent[e].isActive
          /\ ~TargetMovingComponent[e].isProcessing
          /\ TargetMovingComponent[e].speed > 0
          /\ TargetMovingComponent[e].waypoints # <<>>
          /\ TargetMovingComponent[e].normal # VecZero
          /\ ~VecNaN(TargetMovingComponent[e].normal)

\* the system reads waypoints[indexCur] of the entity on the next tick
IsRead(e) ==
    /\ TargetMovingComponent[e].isActive
    /\ TargetMovingComponent[e].isProcessing
    /\ TargetMovingComponent[e].waypoints # <<>>

IndexValid(component) ==
    0 <= component.indexCur /\ component.indexCur < Len(component.waypoints)

\* C9 (cyclic waypoints): whenever a tick reads waypoints[indexCur] of a
\* Moving entity with a non-empty waypoint list, indexCur is a valid index
\* into the list, and it is one after the tick.
C9_CyclicWaypoints ==
    [][call'.op = "MovingTimer" =>
          \A e \in Movers : IsRead(e) =>
              /\ IndexValid(TargetMovingComponent[e])
              /\ IndexValid(TargetMovingComponent'[e])]_vars

\* the entity is set up the way the claim asks and is processing
Traveling(e) ==
    /\ e \in Movers
    /\ IsRead(e)
    /\ TargetMovingComponent[e].speed > 0

\* a tick on which the entity passes the destination check
ArrivalTick(e) ==
    /\ call'.op = "MovingTimer" /\ ~call'.threw
    /\ Traveling(e)
    /\ IndexValid(TargetMovingComponent[e])
    /\ Arrived(Transform[e].position,
               TargetMovingComponent[e].waypoints[TargetMovingComponent[e].indexCur + 1])

TicksKeepComing == []<><<PositiveTick>>_vars

\* C10 (motion loops forever): a Moving entity that from some point on stays
\* active and processing with a non-empty waypoint list and a positive
\* speed, while ticks with dt > 0 keep coming, passes the destination check
\* again and again.
C10_MotionLoops ==
    \A e \in 0 .. (MaxMovers - 1) :
        (TicksKeepComing /\ <>[]Traveling(e)) => []<><<ArrivalTick(e)>>_vars

\* |a - b| < eps, of numbers
Near(a, b, eps) == ~IsNaN(a) /\ ~IsNaN(b) /\ a - b < eps /\ b - a < eps

\* C11 (arrival test): on a tick an active processing entity at p with
\* target waypoint w is treated as arrived (indexCur advances and normal is
\* computed anew) if |p.x - w.x| < 0.05, |p.y - w.y| < 0.05 and
\* |p.z - w.z| < 0.02, and is not (indexCur and normal stay) otherwise.
C11_ArrivalTest ==
    [][(call'.op = "MovingTimer" /\ ~call'.threw) =>
          \A e \in Movers :
              (IsRead(e) /\ IndexValid(TargetMovingComponent[e])) =>
                  LET c == TargetMovingComponent[e]
                      p == Transform[e].position
                      w == c.waypoints[c.indexCur + 1]
                      next == NextIndex(c.indexCur, c.waypoints)
                  IN  IF /\ Near(p.x, w.x, EpsXY)
                         /\ Near(p.y, w.y, EpsXY)
                         /\ Near(p.z, w.z, EpsZ)
                      THEN /\ TargetMovingComponent'[e].indexCur = next
                           /\ TargetMovingComponent'[e].normal =
                                 Normal(p, c.waypoints[next + 1])
                      ELSE /\ TargetMovingComponent'[e].indexCur = c.indexCur
                           /\ TargetMovingComponent'[e].normal = c.normal]_vars

\* a tick of no time has found a target 0.04 and 0.01 off its waypoint in y
\* and z to have arrived: it is bound for the next waypoint
C11_Witness ==
    /\ call.op = "MovingTimer" /\ call.dt = 0 /\ ~call.threw
    /\ \E e \in Movers :
          /\ IsRead(e)
          /\ Transform[e].position = NearA
          /\ TargetMovingComponent[e].waypoints = <<PosA, PosB>>
          /\ TargetMovingComponent[e].indexCur = 1
          /\ TargetMovingComponent[e].normal = Normal(NearA, PosB)

\* C12 (scale of motion): a tick of dt advances the position of every active
\* processing Moving entity by dt * speed * normal in each coordinate, once,
\* whether or not the entity arrived on that tick; normal is the one the
\* tick leaves, which on an arrival is the one it has just computed.
C12_ScaleOfMotion ==
    [][(call'.op = "MovingTimer" /\ ~call'.threw) =>
          \A e \in Movers :
              (IsRead(e) /\ IndexValid(TargetMovingComponent[e])) =>
                  LET p == Transform[e].position
                      n == TargetMovingComponent'[e].normal
                      step == call'.dt * TargetMovingComponent[e].speed
                  IN  /\ Transform'[e].position.x = Add[p.x, Mul[step, n.x]]
                      /\ Transform'[e].position.y = Add[p.y, Mul[step, n.y]]
                      /\ Transform'[e].position.z = Add[p.z, Mul[step, n.z]]]_vars

\* a tick of half a second has taken a target of speed 2 that was at PosA,
\* bound for PosB with normal (1,0,0), by (1,0,0) to PosB
C12_Witness ==
    /\ call.op = "MovingTimer" /\ 2 * call.dt = DtScale /\ ~call.threw
    /\ \E e \in Movers :
          /\ IsRead(e)
          /\ TargetMovingComponent[e].speed = 2
          /\ TargetMovingComponent[e].waypoints = <<PosA, PosB>>
          /\ TargetMovingComponent[e].indexCur = 1
          /\ TargetMovingComponent[e].normal = Vec(NormScale, 0, 0)
          /\ Transform[e].position = PosB

\* C13 as stated (Disable of an inactive entity): Disable(entity, type) on a
\* pooled entity whose isActive is false raises no error and leaves the
\* whole state as it was.
C13_DisableInactive ==
    [][\A type \in TARGET_TYPE : \A entity \in Pooled(type) :
          (/\ entity \in DOMAIN Component(type)
           /\ ~Component(type)[entity].isActive
           /\ Disable(entity, type)) =>
              /\ ~call'.threw
              /\ UNCHANGED <<pooledObjects, entityCounter, Transform,
                             TargetStaticComponent, TargetMovingComponent>>]_vars

\* C13 as amended (Disable is idempotent): Disable(entity, type) on a pooled
\* entity in the state Disable leaves (isActive false, for Moving
\* isProcessing false, scale zero) raises no error and leaves the whole
\* state as it was, the entity still in its bucket; and any Disable that
\* returns leaves the entity in that state.
C13_DisableIdempotent ==
    [][\A type \in TARGET_TYPE : \A entity \in Pooled(type) :
          Disable(entity, type) =>
              /\ IsDisabled(type, entity) =>
                    /\ ~call'.threw
                    /\ UNCHANGED <<pooledObjects, entityCounter, Transform,
                                   TargetStaticComponent, TargetMovingComponent>>
              /\ ~call'.threw =>
                    /\ IsDisabled(type, entity)'
                    /\ pooledObjects' = pooledObjects]_vars

\* Disable has returned from a call on a Moving entity that was inactive
\* already
C13_Witness ==
    /\ call.op = "Disable" /\ ~call.threw /\ ~call.active
    /\ call.entity \in Pooled(MOVING)
    /\ IsDisabled(MOVING, call.entity)

\* C14 (Enable frame): Enable(entity, targetData) on a pooled entity of
\* targetData.type sets isActive, puts the entity at targetData.pos with
\* scale (1,1,1), and changes nothing else: the buckets, every other entity
\* and, of a Moving entity, isProcessing, speed, waypoints, indexCur and
\* normal are as they were.  It raises no error, on an active entity
\* either, and the same Enable once more would change nothing.
C14_EnableFrame ==
    [][\A type \in TARGET_TYPE, pos \in Positions : \A entity \in Pooled(type) :
          (/\ entity \in DOMAIN Component(type)
           /\ Enable(entity, TargetData(type, pos))) =>
              /\ ~call'.threw
              /\ UNCHANGED <<pooledObjects, entityCounter>>
              /\ Component(type)' =
                    [Component(type) EXCEPT ![entity].isActive = TRUE]
              /\ Component(Other(type))' = Component(Other(type))
              /\ Transform' =
                    [Transform EXCEPT ![entity] =
                        [position |-> pos, scale |-> VecOne]]
              /\ Component(type)' =
                    [Component(type)' EXCEPT ![entity].isActive = TRUE]
              /\ Transform' =
                    [Transform' EXCEPT ![entity].position = pos,
                                       ![entity].scale = VecOne]]_vars

\* Enable has returned from a call on a Moving entity that was active, is
\* processing and on its way from PosA to PosB, and has put it at PosB
C14_Witness ==
    /\ call.op = "Enable" /\ ~call.threw /\ call.active
    /\ call.entity \in Pooled(MOVING)
    /\ TargetMovingComponent[call.entity] =
          [isActive |-> TRUE, isProcessing |-> TRUE, speed |-> 1,
           indexCur |-> 1, waypoints |-> <<PosA, PosB>>,
           normal |-> Vec(NormScale, 0, 0)]
    /\ Transform[call.entity] = [position |-> PosB, scale |-> VecOne]

\* the places in the bucket of the entities whose record says not active
InactiveAt(type) ==
    {i \in 1 .. Len(pooledObjects[type]) :
        /\ pooledObjects[type][i] \in DOMAIN Component(type)
        /\ ~Component(type)[pooledObjects[type][i]].isActive}

FirstInactive(type) ==
    pooledObjects[type][CHOOSE i \in InactiveAt(type) :
                           \A j \in InactiveAt(type) : i <= j]

\* C15 (reuse picks the first match only): a Create called while the bucket
\* of its type holds several inactive entities returns the one of them
\* earliest in the bucket, active, and every other pooled entity keeps its
\* isActive, position and scale.
C15_FirstMatch ==
    [][\A type \in TARGET_TYPE, pos \in Positions :
          (/\ Cardinality(InactiveAt(type)) >= 2
           /\ Create(TargetData(type, pos))) =>
              /\ ~call'.threw
              /\ call'.entity = FirstInactive(type)
              /\ FirstInactive(type) \in DOMAIN Component(type)'
              /\ Component(type)'[FirstInactive(type)].isActive
              /\ Transform'[FirstInactive(type)] =
                    [position |-> pos, scale |-> VecOne]
              /\ \A t \in TARGET_TYPE : \A e \in Pooled(t) :
                    (e # FirstInactive(type) /\ e \in DOMAIN Component(t)) =>
                        /\ e \in DOMAIN Component(t)'
                        /\ Component(t)'[e].isActive = Component(t)[e].isActive
                        /\ Transform'[e] = Transform[e]]_vars

\* C16 (tick frame): a tick leaves both buckets, every Static record, every
\* scale, the transform of every entity that is not a Moving one, and the
\* isActive, isProcessing, speed and waypoints of every Moving entity as
\* they were; it leaves a Moving entity that is not active or not
\* processing as it was altogether; and it changes indexCur or normal of a
\* Moving entity only if the entity is within the tolerances of its
\* waypoint on that tick.
C16_TickFrame ==
    [][call'.op = "MovingTimer" =>
          /\ UNCHANGED <<pooledObjects, entityCounter, TargetStaticComponent>>
          /\ DOMAIN Transform' = DOMAIN Transform
          /\ DOMAIN TargetMovingComponent' = DOMAIN TargetMovingComponent
          /\ \A e \in Alive :
                /\ Transform'[e].scale = Transform[e].scale
                /\ e \notin Movers => Transform'[e] = Transform[e]
          /\ \A e \in Movers :
                LET c == TargetMovingComponent[e]
                    d == TargetMovingComponent'[e]
                    p == Transform[e].position
                IN  /\ d.isActive = c.isActive
                    /\ d.isProcessing = c.isProcessing
                    /\ d.speed = c.speed
                    /\ d.waypoints = c.waypoints
                    /\ Idle(e) => (d = c /\ Transform'[e] = Transform[e])
                    /\ (d.indexCur # c.indexCur \/ d.normal # c.normal) =>
                          /\ IsRead(e) /\ IndexValid(c)
                          /\ Near(p.x, c.waypoints[c.indexCur + 1].x, EpsXY)
                          /\ Near(p.y, c.waypoints[c.indexCur + 1].y, EpsXY)
                          /\ Near(p.z, c.waypoints[c.indexCur + 1].z, EpsZ)]_vars

\* next to an active static target, a tick has taken a moving target from
\* half way between PosA and PosB to PosB: it was at no waypoint, and its
\* indexCur and normal are the ones it left PosA with
C16_Witness ==
    /\ call.op = "MovingTimer" /\ call.dt > 0 /\ ~call.threw
    /\ \E s \in Pooled(STATIC) : IsActive(s, STATIC)
    /\ \E e \in Movers :
          /\ IsRead(e)
          /\ TargetMovingComponent[e].speed = 1
          /\ 2 * call.dt = DtScale
          /\ TargetMovingComponent[e].indexCur = 1
          /\ TargetMovingComponent[e].normal = Vec(NormScale, 0, 0)
          /\ Transform[e].position = PosB

AllNaN(v) == IsNaN(v.x) /\ IsNaN(v.y) /\ IsNaN(v.z)

\* the entity passes the destination check on the next tick
Arrives(e) ==
    /\ IsRead(e) /\ IndexValid(TargetMovingComponent[e])
    /\ LET c == TargetMovingComponent[e]
           p == Transform[e].position
           w == c.waypoints[c.indexCur + 1]
       IN  /\ Near(p.x, w.x, EpsXY)
           /\ Near(p.y, w.y, EpsXY)
           /\ Near(p.z, w.z, EpsZ)

\* ... and is exactly at the waypoint it is sent to next
ArrivesAtNext(e) ==
    /\ Arrives(e)
    /\ LET c == TargetMovingComponent[e]
       IN  Transform[e].position =
              c.waypoints[NextIndex(c.indexCur, c.waypoints) + 1]

\* a tick on which an entity arrives exactly at the waypoint it is sent to
\* next leaves its normal and its position undefined
ZeroLengthTick ==
    (call'.op = "MovingTimer" /\ ~call'.threw) =>
        \A e \in Movers :
            ArrivesAtNext(e) =>
                /\ AllNaN(TargetMovingComponent'[e].normal)
                /\ AllNaN(Transform'[e].position)

\* C17 as stated (zero-length direction): a tick on which an entity
\* arrives exactly at the waypoint it is sent to next leaves its normal and
\* its position undefined, and from then on no tick finds the entity to have
\* arrived: none does while its normal is undefined, which it is until an
\* arrival computes it anew.
C17_ZeroLength ==
    [][/\ ZeroLengthTick
       /\ call'.op = "MovingTimer" =>
             \A e \in Movers :
                 VecNaN(TargetMovingComponent[e].normal) => ~Arrives(e)]_vars

\* C17 as amended: ... and no tick finds the entity to have arrived for as
\* long as its position is undefined; a tick leaves it undefined, with
\* indexCur and normal as they were, and only Enable, called by its caller
\* or by a Create that reuses the entity, gives the entity a position again.
C17_ZeroLengthUntilEnable ==
    [][/\ ZeroLengthTick
       /\ \A e \in Movers :
             VecNaN(Transform[e].position) =>
                 /\ ~Arrives(e)
                 /\ call'.op = "MovingTimer" =>
                       /\ AllNaN(Transform'[e].position)
                       /\ TargetMovingComponent'[e] = TargetMovingComponent[e]
                 /\ (e \in Movers' /\ ~VecNaN(Transform'[e].position)) =>
                       /\ call'.op \in {"Create", "Enable"}
                       /\ call'.entity = e]_vars

\* a tick has passed over a processing target whose single waypoint it had
\* reached exactly: normal and position are undefined
C17_Witness ==
    /\ call.op = "MovingTimer" /\ ~call.threw
    /\ \E e \in Movers :
          /\ IsRead(e)
          /\ TargetMovingComponent[e].waypoints = <<PosA>>
          /\ TargetMovingComponent[e].indexCur = 0
          /\ AllNaN(TargetMovingComponent[e].normal)
          /\ AllNaN(Transform[e].position)

\* the handles Create's scan reads the records of: the bucket up to the
\* place the scan stops at
Scanned(type) ==
    {pooledObjects[type][i] :
        i \in 1 .. (IF ScanStop(type) = 0 THEN Len(pooledObjects[type])
                    ELSE ScanStop(type))}

\* C18 (Create never fails on a pooled handle): whatever calls came before,
\* Create reads the records of entities the engine still holds only,
\* returns without an error, and returns an entity that exists, has the
\* component of the type asked for, is active and is at the position asked
\* for.
C18_CreateNeverFails ==
    [][\A type \in TARGET_TYPE, pos \in Positions :
          Create(TargetData(type, pos)) =>
              /\ Scanned(type) \subseteq Alive
              /\ ~call'.threw
              /\ call'.entity \in Alive'
              /\ call'.entity \in DOMAIN Component(type)'
              /\ Component(type)'[call'.entity].isActive
              /\ Transform'[call'.entity].position = pos]_vars

\* C19 (inactive implies idle): under callers that set isProcessing on
\* active entities only, and without Destroy, every Moving entity that is
\* not active is not processing, and the entity a reusing Create has just
\* returned is not processing.
C19_InactiveIdle ==
    /\ \A e \in Movers :
          ~TargetMovingComponent[e].isActive =>
              ~TargetMovingComponent[e].isProcessing
    /\ (call.op = "Create" /\ call.reused /\ call.entity \in Movers) =>
          ~TargetMovingComponent[call.entity].isProcessing

\* Create has just returned a recycled Moving entity: it is active and not
\* processing
C19_Witness ==
    /\ call.op = "Create" /\ call.reused /\ ~call.threw
    /\ call.entity \in Pooled(MOVING)
    /\ TargetMovingComponent[call.entity].isActive
    /\ ~TargetMovingComponent[call.entity].isProcessing

\* the entities of a bucket that are active
ActiveIn(pool, component) ==
    {i \in 1 .. Len(pool) :
        pool[i] \in DOMAIN component /\ component[pool[i]].isActive}

\* C20 (bounded growth): without Destroy, a bucket never gets shorter, and
\* it is always as long as the largest number of entities of its type that
\* have been active at once.  It starts empty with none active; it never
\* holds fewer entities than are active; and it grows only by a Create that
\* found every entity in it active, by that one entity, after which every
\* entity in it is active again: so each length it reaches is a number of
\* entities that were active at once, and no larger number ever were.
C20_BoundedGrowth ==
    [][\A type \in TARGET_TYPE :
          LET pool == pooledObjects[type]
              grown == pooledObjects'[type]
              active == ActiveIn(pool, Component(type))
              after == ActiveIn(grown, Component(type)')
          IN  /\ Len(grown) >= Len(pool)
              /\ SubSeq(grown, 1, Len(pool)) = pool
              /\ Cardinality(after) <= Len(grown)
              /\ Len(grown) # Len(pool) =>
                    /\ call'.op = "Create" /\ ~call'.reused
                    /\ Len(grown) = Len(pool) + 1
                    /\ Cardinality(active) = Len(pool)
                    /\ Cardinality(after) = Len(grown)]_vars

\* a Create has reused an entity of a bucket of two, both of which are
\* active again: the bucket is as long as the most that were active at once
C20_Witness ==
    /\ call.op = "Create" /\ call.reused /\ ~call.threw
    /\ \E type \in TARGET_TYPE :
          /\ call.entity \in Pooled(type)
          /\ Len(pooledObjects[type]) = 2
          /\ Cardinality(ActiveIn(pooledObjects[type], Component(type))) = 2

====
